---------------------------- MODULE Spec2Model ----------------------------
(***************************************************************************)
(* AdvoLens client: the Next.js API routes that proxy to the backend, the  *)
(* page components (admin dashboard, report form, analytics) that call     *)
(* them, getImageUrl, and the scripts that build the backend's image.  The *)
(* backend is the environment: it answers every forwarded request with     *)
(* some status and body, or the connection fails.                          *)
(*                                                                         *)
(* Text that the code takes apart (query strings, coordinates typed by the *)
(* user) is a sequence of one-character strings; text that the code only   *)
(* passes along or compares as a whole (header values, messages) is a      *)
(* string.                                                                 *)
(***************************************************************************)
EXTENDS Integers, Sequences, FiniteSets, TLC

\* The field names of the model's records, in the order in which every
\* record below lists its fields (TLC orders the fields of a record by the
\* first appearance of their names).
FieldNames ==
    [alert |-> 0, auth |-> 0, body |-> 0, center |-> 0, cluster_id |-> 0,
     ctype |-> 0, data |-> 0, db |-> 0, department |-> 0,
     description |-> 0, detail |-> 0, error |-> 0, failed |-> 0,
     fetch |-> 0, file |-> 0, form |-> 0, handler |-> 0, id |-> 0,
     issue_count |-> 0, issues |-> 0, kind |-> 0, lat |-> 0, loading |-> 0,
     location |-> 0, locationError |-> 0, lon |-> 0, mantissa |-> 0,
     method |-> 0, mutation |-> 0, origin |-> 0, outcome |-> 0, path |-> 0,
     payload |-> 0, query |-> 0, requests |-> 0, resp |-> 0, route |-> 0,
     scale |-> 0, sent |-> 0, status |-> 0, threw |-> 0, token |-> 0,
     user |-> 0]

VARIABLES
    \* ---- one call of an API route (src/client/app/api/**)
    proxyReq,       \* the request the route received
    proxySent,      \* the request the route sent to the backend, or NoRequest
    proxyOut,       \* what the backend did with it
    proxyResp       \* the response the route returned

proxyVars == <<proxyReq, proxySent, proxyOut, proxyResp>>

VARIABLES
    \* ---- the deployment and the browser
    apiUrlEnv,      \* NEXT_PUBLIC_API_URL, Null when not set
    pageRequests,   \* the URLs the last page handler requested, in order
    \* ---- the backend
    db,             \* the issues the backend holds
    \* ---- the admin dashboard (src/client/app/admin/dashboard/page.tsx)
    dashRoute,      \* where the router is: the dashboard or /admin/login
    dashToken,      \* localStorage 'token'
    dashUser,       \* localStorage 'user'
    issues,         \* useState issues: the JSON last given to setIssues
    loading,        \* useState loading
    reassignIssue,  \* useState reassignIssue, 0 for null
    dashLast        \* the handler that has just run and the responses it
                    \* received; cleared when the page is idle again

dashVars == <<db, dashRoute, dashToken, dashUser, issues, loading,
              reassignIssue, dashLast>>

envVars == <<apiUrlEnv, pageRequests>>

VARIABLES
    \* ---- the report page (src/client/app/report/page.tsx and its later
    \* version)
    reportPage,     \* which of the two pages is deployed, Null until opened
    geolocation,    \* what the browser has of navigator.geolocation
    reportRoute,    \* where the router is: /, /report or /notifications
    file,           \* useState file, Null or the name of the photo
    location,       \* useState location
    description,    \* useState description
    locationError,  \* useState locationError
    manualLocation, \* useState manualLocation
    manualLat,      \* useState manualLat: the text of the input
    manualLon,      \* useState manualLon
    trackingToken,  \* localStorage 'tracking_token'
    reportLast      \* the handler that has just run; cleared when the page
                    \* is idle again

reportVars == <<reportPage, geolocation, reportRoute, file, location,
                description, locationError, manualLocation, manualLat,
                manualLon, trackingToken, reportLast>>

VARIABLES
    \* ---- the analytics page (src/client/app/admin/analytics/page.tsx)
    hotspots,         \* useState hotspots
    hotspotFetches,   \* the calls of fetchHotspots that await their response
    hotspotsServed,   \* the lists of hotspots that responses have carried
    analyticsIssues,  \* useState issues
    analyticsLoading, \* useState loading: fetchIssues is under way
    analyticsLast     \* the handler that has just ended; cleared when the
                      \* page is idle again

analyticsVars == <<hotspots, hotspotFetches, hotspotsServed, analyticsIssues,
                   analyticsLoading, analyticsLast>>

(***************************************************************************)
(* Values                                                                  *)
(***************************************************************************)

\* JavaScript null / undefined for a string-valued thing.
Null == "<null>"

\* null for a text held as a sequence of characters.
NullSeq == <<Null>>

\* A JSON value: an object (with its `detail` and `error` members, "" when
\* absent, and the rest of its content as `payload`), an array, or null.
Json(kind, detail, error, payload) ==
    [detail |-> detail, error |-> error, kind |-> kind, payload |-> payload]

JsonObject(detail, error, payload) == Json("object", detail, error, payload)

JsonArray(payload) == Json("array", "", "", payload)

JsonNull == Json("null", "", "", <<>>)

DetailBody(msg) == JsonObject(msg, "", <<>>)

ErrorBody(msg) == JsonObject("", msg, <<>>)

\* response.ok of fetch: a status in the range 200-299.
IsOk(status) == status >= 200 /\ status <= 299

\* NextResponse.json(body, { status }): status defaults to 200.
Response(status, body) == [body |-> body, status |-> status]

NoResponse == Response(0, JsonNull)

\* A request to the backend: fetch(`${BACKEND_URL}${path}?${query}`, {method,
\* headers, body}).  `id` is the path parameter (0 when the path has none),
\* `auth` the Authorization header (Null when not set), `ctype` the
\* Content-Type header, `query` the text after the "?" (<<>> when none).
BackendRequest(method, path, id, auth, ctype, query, body) ==
    [auth |-> auth, body |-> body, ctype |-> ctype, id |-> id,
     method |-> method, path |-> path, query |-> query]

\* No body.  A JSON body is the tuple of its members' names and values, a
\* form the sequence of its (name, value) pairs.
NoBody == <<>>

NoRequest == BackendRequest("NONE", "", 0, Null, Null, <<>>, NoBody)

\* The outcome of a fetch to the backend: the connection fails (fetch
\* throws), or a response with a status and a body that is JSON, empty
\* (as in 204 No Content) or text that is not JSON.
Outcome(threw, status, ctype, data) ==
    [ctype |-> ctype, data |-> data, status |-> status, threw |-> threw]

NoOutcome == Outcome(FALSE, 0, "none", JsonNull)


(***************************************************************************)
(* Text: query strings                                                     *)
(***************************************************************************)

\* Position of the first c in s, 0 when there is none.
IndexOf(s, c) ==
    IF \E i \in 1..Len(s) : s[i] = c
    THEN CHOOSE i \in 1..Len(s) : s[i] = c /\ \A j \in 1..(i-1) : s[j] # c
    ELSE 0

RECURSIVE Split(_, _)
\* s.split(c): the pieces of s between the occurrences of c.
Split(s, c) ==
    LET i == IndexOf(s, c)
    IN  IF i = 0 THEN <<s>>
        ELSE <<SubSeq(s, 1, i-1)>> \o Split(SubSeq(s, i+1, Len(s)), c)

\* The percent escapes of the characters of the model's alphabet.
EscapeOf(c) ==
    CASE c = "&" -> <<"%", "2", "6">>
      [] c = "=" -> <<"%", "3", "D">>
      [] c = "+" -> <<"%", "2", "B">>
      [] c = "%" -> <<"%", "2", "5">>
      [] c = "#" -> <<"%", "2", "3">>
      [] OTHER   -> <<c>>

Escaped == {"&", "=", "+", "%", "#"}

RECURSIVE PercentDecode(_)
\* Percent-decoding: %XX becomes the character it escapes; a % that starts
\* no escape stays as it is.
PercentDecode(s) ==
    IF s = <<>> THEN <<>>
    ELSE IF s[1] = "%" /\ Len(s) >= 3
            /\ \E c \in Escaped : EscapeOf(c) = SubSeq(s, 1, 3)
         THEN <<CHOOSE c \in Escaped : EscapeOf(c) = SubSeq(s, 1, 3)>>
              \o PercentDecode(SubSeq(s, 4, Len(s)))
         ELSE <<s[1]>> \o PercentDecode(Tail(s))

PlusToSpace(s) == [i \in 1..Len(s) |-> IF s[i] = "+" THEN " " ELSE s[i]]

\* One name=value piece of a query, decoded.
ParsePair(piece) ==
    LET i == IndexOf(piece, "=")
        name  == IF i = 0 THEN piece ELSE SubSeq(piece, 1, i-1)
        value == IF i = 0 THEN <<>> ELSE SubSeq(piece, i+1, Len(piece))
    IN  <<PercentDecode(PlusToSpace(name)), PercentDecode(PlusToSpace(value))>>

\* new URL(request.url).searchParams: the pairs of the query, in order;
\* empty pieces are skipped.
SearchParams(query) ==
    LET pieces == Split(query, "&")
        kept   == SelectSeq(pieces, LAMBDA p : p # <<>>)
    IN  [i \in 1..Len(kept) |-> ParsePair(kept[i])]

\* searchParams.get(name): the value of the first pair of that name, else null.
SearchParamsGet(query, name) ==
    LET ps == SearchParams(query)
    IN  IF \E i \in 1..Len(ps) : ps[i][1] = name
        THEN LET k == CHOOSE i \in 1..Len(ps) :
                        ps[i][1] = name /\ \A j \in 1..(i-1) : ps[j][1] # name
             IN  ps[k][2]
        ELSE NullSeq

RECURSIVE FormEncode(_)
\* The form-urlencoded serialisation of one name or value.
FormEncode(s) ==
    IF s = <<>> THEN <<>>
    ELSE (IF s[1] = " " THEN <<"+">> ELSE EscapeOf(s[1])) \o FormEncode(Tail(s))

RECURSIVE JoinPairs(_)
JoinPairs(ps) ==
    IF ps = <<>> THEN <<>>
    ELSE FormEncode(ps[1][1]) \o <<"=">> \o FormEncode(ps[1][2])
         \o (IF Len(ps) > 1 THEN <<"&">> ELSE <<>>) \o JoinPairs(Tail(ps))

\* searchParams.toString()
SearchParamsToString(query) == JoinPairs(SearchParams(query))

TokenName == <<"t", "o", "k", "e", "n">>

LimitName == <<"l", "i", "m", "i", "t">>


(***************************************************************************)
(* Text: numbers.  A JavaScript number is held as a decimal, mantissa /    *)
(* 10^scale, in lowest terms (scale 0, or a mantissa that does not end in  *)
(* 0), so that equal numbers are equal values.  The coordinates met here   *)
(* have few digits, where a double and the decimal agree on every          *)
(* comparison made and Number.prototype.toString uses no exponent.         *)
(***************************************************************************)

Dec(mantissa, scale) == [mantissa |-> mantissa, scale |-> scale]

\* NaN, the number that is not one.
NaN == Dec(0, 0 - 1)

\* isNaN
IsNaN(x) == x = NaN

RECURSIVE Pow10(_)
Pow10(n) == IF n <= 0 THEN 1 ELSE 10 * Pow10(n - 1)

RECURSIVE Normalised(_, _)
Normalised(mantissa, scale) ==
    IF scale < 0 THEN Dec(mantissa * Pow10(0 - scale), 0)
    ELSE IF mantissa = 0 THEN Dec(0, 0)
    ELSE IF scale > 0 /\ mantissa % 10 = 0
         THEN Normalised(mantissa \div 10, scale - 1)
    ELSE Dec(mantissa, scale)

FromInt(n) == Dec(n, 0)

\* a < b; false when either is NaN.
Less(a, b) ==
    /\ ~IsNaN(a)
    /\ ~IsNaN(b)
    /\ a.mantissa * Pow10(b.scale) < b.mantissa * Pow10(a.scale)

DecimalDigits == <<"0", "1", "2", "3", "4", "5", "6", "7", "8", "9">>

IsDigit(c) == \E d \in 1..Len(DecimalDigits) : DecimalDigits[d] = c

DigitValue(c) == (CHOOSE d \in 1..Len(DecimalDigits) : DecimalDigits[d] = c) - 1

\* The number of digits of `text` from position i on.
RECURSIVE DigitRun(_, _)
DigitRun(text, i) ==
    IF i <= Len(text) /\ IsDigit(text[i]) THEN 1 + DigitRun(text, i + 1) ELSE 0

\* The value of the n digits of `text` from position i on.
RECURSIVE NatOf(_, _, _)
NatOf(text, i, n) ==
    IF n = 0 THEN 0
    ELSE NatOf(text, i, n - 1) * 10 + DigitValue(text[i + n - 1])

\* The number of leading spaces of `text` from position i on.
RECURSIVE SpaceRun(_, _)
SpaceRun(text, i) ==
    IF i <= Len(text) /\ text[i] = " " THEN 1 + SpaceRun(text, i + 1) ELSE 0

\* The decimal m / 10^scale, negated when `negative`.
Signed(negative, m, scale) ==
    Normalised(IF negative THEN 0 - m ELSE m, scale)

\* The exponent part at position j: "e" or "E", a sign or none, digits.
\* 0 when there is none; an "e" with no digits after it is not part of
\* the number.
ExponentAt(text, j) ==
    IF ~(j <= Len(text) /\ text[j] \in {"e", "E"}) THEN 0
    ELSE IF j + 1 <= Len(text) /\ text[j + 1] = "-"
         THEN 0 - NatOf(text, j + 2, DigitRun(text, j + 2))
    ELSE IF j + 1 <= Len(text) /\ text[j + 1] = "+"
         THEN NatOf(text, j + 2, DigitRun(text, j + 2))
    ELSE NatOf(text, j + 1, DigitRun(text, j + 1))

\* The number with nInt digits from position i, nFrac digits after the
\* point, and what follows from position j on.
ParseDigits(text, negative, i, nInt, nFrac, j) ==
    IF nInt + nFrac = 0 THEN NaN
    ELSE Signed(negative,
                NatOf(text, i, nInt) * Pow10(nFrac)
                + NatOf(text, i + nInt + 1, nFrac),
                nFrac - ExponentAt(text, j))

ParseFraction(text, negative, i, nInt) ==
    IF i + nInt <= Len(text) /\ text[i + nInt] = "."
    THEN ParseDigits(text, negative, i, nInt, DigitRun(text, i + nInt + 1),
                     i + nInt + 1 + DigitRun(text, i + nInt + 1))
    ELSE ParseDigits(text, negative, i, nInt, 0, i + nInt)

ParseUnsigned(text, negative, i) ==
    ParseFraction(text, negative, i, DigitRun(text, i))

ParseTrimmed(text, start) ==
    IF start <= Len(text) /\ text[start] \in {"+", "-"}
    THEN ParseUnsigned(text, text[start] = "-", start + 1)
    ELSE ParseUnsigned(text, FALSE, start)

\* parseFloat: the longest prefix of the trimmed text that is a decimal
\* literal (sign, digits, fraction, exponent); NaN when there is none.
ParseFloat(text) == ParseTrimmed(text, 1 + SpaceRun(text, 1))

\* The digits of a natural number.
RECURSIVE NatToText(_)
NatToText(n) ==
    IF n < 10 THEN <<DecimalDigits[n + 1]>>
    ELSE NatToText(n \div 10) \o <<DecimalDigits[(n % 10) + 1]>>

\* The n digits of a natural number below 10^n, zeros in front.
RECURSIVE Padded(_, _)
Padded(n, digits) ==
    IF digits = 0 THEN <<>>
    ELSE Padded(n \div 10, digits - 1) \o <<DecimalDigits[(n % 10) + 1]>>

\* Number.prototype.toString
NumberToString(x) ==
    IF IsNaN(x) THEN <<"N", "a", "N">>
    ELSE LET abs  == IF x.mantissa < 0 THEN 0 - x.mantissa ELSE x.mantissa
             unit == Pow10(x.scale)
         IN  (IF x.mantissa < 0 THEN <<"-">> ELSE <<>>)
             \o NatToText(abs \div unit)
             \o (IF x.scale = 0 THEN <<>>
                 ELSE <<".">> \o Padded(abs % unit, x.scale))

(***************************************************************************)
(* The API routes.  Each handler is an operator of the request it received *)
(* and of the outcome `out` of the fetch it makes (read only when it makes *)
(* one); its value is the request sent to the backend (or NoRequest) and   *)
(* the response returned to the caller.                                    *)
(***************************************************************************)

Handled(sent, resp) == [resp |-> resp, sent |-> sent]

\* authHeader === undefined: headers.get() gives null for an absent header,
\* never undefined.
AuthRequiredUndefinedOnly(authHeader) == FALSE

\* if (!authHeader): the header is absent (null) or empty.

AuthRequired(authHeader) == authHeader = Null \/ authHeader = ""

\* token === null: an empty token passes.
TokenRequiredNullOnly(token) == token = NullSeq

\* if (!token): the query parameter is absent (null) or empty.

TokenRequired(token) == token = NullSeq \/ token = <<>>

\* await request.json() throws when the body is not JSON text.
BodyIsJson(body) == body # NoBody

\* await backendResponse.json() throws when the fetch threw before it, or
\* when the body is empty or is not JSON.
BackendJsonThrows(out) == out.threw \/ out.ctype # "json"

\* data.detail || fallback; reading a member of null throws.
DetailOr(data, fallback) == IF data.detail # "" THEN data.detail ELSE fallback

\* The catch block of the routes that answer { detail: ... }.
InternalServerError == Response(500, DetailBody("Internal server error"))

Unauthorized == Response(401, DetailBody("Authorization header required"))

TokenIsRequired == Response(400, DetailBody("Tracking token is required"))

\* What follows the fetch in the routes that read the body first and test
\* backendResponse.ok second.
JsonThenOk(out, fallback) ==
    IF BackendJsonThrows(out) THEN InternalServerError
    ELSE IF ~IsOk(out.status)
         THEN IF out.data.kind = "null" THEN InternalServerError
              ELSE Response(out.status, DetailBody(DetailOr(out.data, fallback)))
         ELSE Response(200, out.data)

\* GET /api/admin/issues
AdminIssuesGET(req, out) ==
    IF AuthRequired(req.auth) THEN Handled(NoRequest, Unauthorized)
    ELSE Handled(BackendRequest("GET", "/admin/issues", 0, req.auth,
                                "application/json",
                                SearchParamsToString(req.query), NoBody),
                 JsonThenOk(out, "Failed to fetch issues"))

\* GET /api/admin/stats
AdminStatsGET(req, out) ==
    IF AuthRequired(req.auth) THEN Handled(NoRequest, Unauthorized)
    ELSE Handled(BackendRequest("GET", "/admin/stats", 0, req.auth,
                                "application/json", <<>>, NoBody),
                 JsonThenOk(out, "Failed to fetch stats"))

\* GET /api/auth/me
AuthMeGET(req, out) ==
    IF AuthRequired(req.auth) THEN Handled(NoRequest, Unauthorized)
    ELSE Handled(BackendRequest("GET", "/auth/me", 0, req.auth,
                                "application/json", <<>>, NoBody),
                 JsonThenOk(out, "Unauthorized"))

\* PATCH /api/admin/issues/[id]: reassign to a department
ReassignPATCH(req, out) ==
    IF AuthRequired(req.auth) THEN Handled(NoRequest, Unauthorized)
    ELSE IF ~BodyIsJson(req.body) THEN Handled(NoRequest, InternalServerError)
    ELSE Handled(BackendRequest("PATCH", "/admin/{id}/reassign", req.id,
                                req.auth, "application/json", <<>>, req.body),
                 JsonThenOk(out, "Failed to reassign issue"))

\* DELETE /api/admin/issues/[id]
IssueDELETE(req, out) ==
    IF AuthRequired(req.auth) THEN Handled(NoRequest, Unauthorized)
    ELSE Handled(BackendRequest("DELETE", "/admin/{id}", req.id, req.auth,
                                "application/json", <<>>, NoBody),
                 JsonThenOk(out, "Failed to delete issue"))

\* PATCH /api/issues/[id]/status
StatusPATCH(req, out) ==
    LET failed == Response(500, ErrorBody("Failed to update issue status"))
    IN  IF ~BodyIsJson(req.body) THEN Handled(NoRequest, failed)
        ELSE Handled(BackendRequest("PATCH", "/issues/{id}/status", req.id,
                                    Null, "application/json", <<>>, req.body),
                     IF out.threw THEN failed
                     ELSE IF ~IsOk(out.status)
                          THEN Response(out.status,
                                        ErrorBody("Failed to update status"))
                     ELSE IF out.ctype # "json" THEN failed
                     ELSE Response(200, out.data))

\* GET /api/notifications
NotificationsGET(req, out) ==
    LET token == SearchParamsGet(req.query, TokenName)
    IN  IF TokenRequired(token) THEN Handled(NoRequest, TokenIsRequired)
        ELSE Handled(BackendRequest("GET", "/notifications/my-notifications",
                                    0, Null, "application/json",
                                    TokenName \o <<"=">> \o token, NoBody),
                     JsonThenOk(out, "Failed to fetch notifications"))

\* PATCH /api/notifications/[id]/read
NotificationReadPATCH(req, out) ==
    LET token == SearchParamsGet(req.query, TokenName)
    IN  IF TokenRequired(token) THEN Handled(NoRequest, TokenIsRequired)
        ELSE Handled(BackendRequest("PATCH", "/notifications/{id}/read",
                                    req.id, Null, "application/json",
                                    TokenName \o <<"=">> \o token, NoBody),
                     JsonThenOk(out, "Failed to mark notification as read"))

\* { total: 0, unread: 0 }
ZeroCounts == JsonObject("", "", <<0, 0>>)

\* What the count route answers when it has no counts to give.
NoCountsAsError == Response(500, ZeroCounts)

NoCounts == Response(200, ZeroCounts)

\* GET /api/notifications/count
NotificationCountGET(req, out) ==
    LET token == SearchParamsGet(req.query, TokenName)
    IN  IF TokenRequired(token) THEN Handled(NoRequest, NoCounts)
        ELSE Handled(BackendRequest("GET", "/notifications/count", 0, Null,
                                    "application/json",
                                    TokenName \o <<"=">> \o token, NoBody),
                     IF BackendJsonThrows(out) THEN NoCounts
                     ELSE IF ~IsOk(out.status) THEN NoCounts
                     ELSE Response(200, out.data))

\* What follows the fetch in the routes that throw on a response that is
\* not ok and answer 500 { error: ... } from the catch block.
OkThenJson(out, message) ==
    IF out.threw \/ ~IsOk(out.status) \/ out.ctype # "json"
    THEN Response(500, ErrorBody(message))
    ELSE Response(200, out.data)

\* GET /api/issues
IssuesGET(req, out) ==
    Handled(BackendRequest("GET", "/issues/", 0, Null, "application/json",
                           <<>>, NoBody),
            OkThenJson(out, "Failed to fetch issues"))

\* POST /api/issues: the form is forwarded as it came.
IssuesPOST(req, out) ==
    IF req.body = NoBody
    THEN Handled(NoRequest, Response(500, ErrorBody("Failed to create issue")))
    ELSE Handled(BackendRequest("POST", "/issues/", 0, Null, "multipart/form-data",
                                <<>>, req.body),
                 OkThenJson(out, "Failed to create issue"))

\* GET /api/issues/[id]/similar
SimilarGET(req, out) ==
    LET given == SearchParamsGet(req.query, LimitName)
        limit == IF given = NullSeq \/ given = <<>> THEN <<"5">> ELSE given
    IN  Handled(BackendRequest("GET", "/issues/{id}/similar", req.id, Null,
                               "application/json",
                               LimitName \o <<"=">> \o limit, NoBody),
                OkThenJson(out, "Failed to fetch similar issues"))


\* The handler that Next.js runs for a request: the route of its path and
\* the export of its method.
Route(req, out) ==
    CASE req.route = "adminIssues" -> AdminIssuesGET(req, out)
      [] req.route = "adminStats" -> AdminStatsGET(req, out)
      [] req.route = "authMe" -> AuthMeGET(req, out)
      [] req.route = "reassign" -> ReassignPATCH(req, out)
      [] req.route = "deleteIssue" -> IssueDELETE(req, out)
      [] req.route = "issueStatus" -> StatusPATCH(req, out)
      [] req.route = "notifications" -> NotificationsGET(req, out)
      [] req.route = "notificationRead" -> NotificationReadPATCH(req, out)
      [] req.route = "notificationCount" -> NotificationCountGET(req, out)
      [] req.route = "similar" -> SimilarGET(req, out)
      [] req.route = "issues" /\ req.method = "POST" -> IssuesPOST(req, out)
      [] req.route = "issues" -> IssuesGET(req, out)

(***************************************************************************)
(* Calls of the API routes                                                 *)
(***************************************************************************)

\* Issue and notification ids used in paths.
MaxId == 2

Ids == 1..MaxId

\* A request to an API route.
Request(route, method, auth, query, id, body) ==
    [auth |-> auth, body |-> body, id |-> id, method |-> method,
     query |-> query, route |-> route]

NoCall == Request("none", "NONE", Null, <<>>, 0, NoBody)

\* Authorization header values: absent, empty, `Bearer ${token}` with a
\* stored token and with none (getAuthHeaders with no token in localStorage).
AuthHeaders == {Null, "", "Bearer t1", "Bearer null"}

\* Queries that carry no token, or an empty one.
QueriesWithoutToken ==
    { <<>>,
      TokenName,
      TokenName \o <<"=">>,
      <<"x", "=", "a">>,
      TokenName \o <<"=", "&", "x", "=", "a">> }

\* Tracking tokens the client may hold: localStorage 'tracking_token'.
TrackingTokens ==
    { <<"a">>,
      <<"a", "b">>,
      <<"a", "=", "b">>,
      <<"a", "&", "b">>,
      <<"a", "+", "b">>,
      <<"a", "%", "2", "6", "b">>,
      <<"a", "#", "b">> }

\* The query of the URL that fetch requests: what follows the first '#' of
\* the text is the fragment, which is not sent.
UrlQuery(text) ==
    IF IndexOf(text, "#") = 0 THEN text
    ELSE SubSeq(text, 1, IndexOf(text, "#") - 1)

\* fetch(`/api/notifications?token=${trackingToken}`): the query the route
\* receives.
ClientQuery(token) == UrlQuery(TokenName \o <<"=">> \o token)

\* Queries that carry a token.
QueriesWithToken ==
    {ClientQuery(t) : t \in TrackingTokens}
    \cup
    { TokenName \o <<"=", "a">>,
      TokenName \o <<"=", "a", "b">>,
      <<"x", "=", "a", "&">> \o TokenName \o <<"=", "b">>,
      TokenName \o <<"=", "a", "%", "2", "6", "b">>,
      TokenName \o <<"=", "a", "+", "b">> }

Queries == QueriesWithoutToken \cup QueriesWithToken

\* Bodies of requests: none (not JSON), or the JSON the dashboard sends.
JsonBodies ==
    {<<"status", "Resolved">>, <<"status", "Open">>, <<"department", "pwd">>}

Bodies == {NoBody} \cup JsonBodies

Statuses == {200, 201, 204, 400, 401, 403, 404, 500}

\* JSON the backend may answer with.
BackendData ==
    { JsonNull,
      JsonObject("", "", <<>>),
      JsonObject("Could not validate credentials", "", <<>>),
      JsonObject("", "", <<3, 1>>),
      JsonArray(<<>>),
      JsonArray(<<1, 2>>) }

BackendOutcomes ==
    {Outcome(TRUE, 0, "none", JsonNull)}
    \cup {Outcome(FALSE, st, "json", d) : st \in Statuses, d \in BackendData}
    \cup {Outcome(FALSE, st, ct, JsonNull) : st \in Statuses, ct \in {"empty", "text"}}

\* The route ran: what it sent, what the backend did, what it answered.
\* The routes keep no state between calls: every call starts from NoCall.
Served(req, out, h) ==
    /\ proxyReq = NoCall
    /\ proxyReq' = req
    /\ proxySent' = h.sent
    /\ proxyOut' = IF h.sent = NoRequest THEN NoOutcome ELSE out
    /\ proxyResp' = h.resp

CallAdminIssues ==
    \E auth \in AuthHeaders, q \in Queries, out \in BackendOutcomes :
        LET req == Request("adminIssues", "GET", auth, q, 0, NoBody)
        IN  Served(req, out, AdminIssuesGET(req, out))

CallAdminStats ==
    \E auth \in AuthHeaders, out \in BackendOutcomes :
        LET req == Request("adminStats", "GET", auth, <<>>, 0, NoBody)
        IN  Served(req, out, AdminStatsGET(req, out))

CallAuthMe ==
    \E auth \in AuthHeaders, out \in BackendOutcomes :
        LET req == Request("authMe", "GET", auth, <<>>, 0, NoBody)
        IN  Served(req, out, AuthMeGET(req, out))

CallReassign ==
    \E auth \in AuthHeaders, id \in Ids, body \in Bodies, out \in BackendOutcomes :
        LET req == Request("reassign", "PATCH", auth, <<>>, id, body)
        IN  Served(req, out, ReassignPATCH(req, out))

CallDelete ==
    \E auth \in AuthHeaders, id \in Ids, out \in BackendOutcomes :
        LET req == Request("deleteIssue", "DELETE", auth, <<>>, id, NoBody)
        IN  Served(req, out, IssueDELETE(req, out))

CallStatus ==
    \E auth \in AuthHeaders, id \in Ids, body \in Bodies, out \in BackendOutcomes :
        LET req == Request("issueStatus", "PATCH", auth, <<>>, id, body)
        IN  Served(req, out, StatusPATCH(req, out))

CallNotifications ==
    \E q \in Queries, out \in BackendOutcomes :
        LET req == Request("notifications", "GET", Null, q, 0, NoBody)
        IN  Served(req, out, NotificationsGET(req, out))

CallNotificationRead ==
    \E q \in Queries, id \in Ids, out \in BackendOutcomes :
        LET req == Request("notificationRead", "PATCH", Null, q, id, NoBody)
        IN  Served(req, out, NotificationReadPATCH(req, out))

CallNotificationCount ==
    \E q \in Queries, out \in BackendOutcomes :
        LET req == Request("notificationCount", "GET", Null, q, 0, NoBody)
        IN  Served(req, out, NotificationCountGET(req, out))

CallIssuesList ==
    \E out \in BackendOutcomes :
        LET req == Request("issues", "GET", Null, <<>>, 0, NoBody)
        IN  Served(req, out, IssuesGET(req, out))

CallIssuesCreate ==
    \E body \in {NoBody, <<<<"image", "photo">>>>}, out \in BackendOutcomes :
        LET req == Request("issues", "POST", Null, <<>>, 0, body)
        IN  Served(req, out, IssuesPOST(req, out))

CallSimilar ==
    \E q \in {<<>>, LimitName \o <<"=", "3">>}, id \in Ids, out \in BackendOutcomes :
        LET req == Request("similar", "GET", Null, q, id, NoBody)
        IN  Served(req, out, SimilarGET(req, out))

InitProxy ==
    /\ proxyReq = NoCall
    /\ proxySent = NoRequest
    /\ proxyOut = NoOutcome
    /\ proxyResp = NoResponse

\* The caller has the response.
ProxyReturn ==
    /\ proxyReq # NoCall
    /\ proxyReq' = NoCall
    /\ proxySent' = NoRequest
    /\ proxyOut' = NoOutcome
    /\ proxyResp' = NoResponse

NextProxy ==
    \/ ProxyReturn
    \/ CallAdminIssues
    \/ CallAdminStats
    \/ CallAuthMe
    \/ CallReassign
    \/ CallDelete
    \/ CallStatus
    \/ CallNotifications
    \/ CallNotificationRead
    \/ CallNotificationCount
    \/ CallIssuesList
    \/ CallIssuesCreate
    \/ CallSimilar


(***************************************************************************)
(* Pages: where their requests go                                          *)
(***************************************************************************)

Url(origin, path) == [origin |-> origin, path |-> path]

\* The origin the pages are served from: a URL without origin goes there.
SameOrigin == ""

\* process.env.NEXT_PUBLIC_API_URL || 'http://localhost:8000'
API_URL == IF apiUrlEnv = Null THEN "http://localhost:8000" ELSE apiUrlEnv

\* axios.create({ baseURL: process.env.NEXT_PUBLIC_API_URL || '' })
AxiosBaseURL == IF apiUrlEnv = Null THEN SameOrigin ELSE apiUrlEnv

(***************************************************************************)
(* The backend, as the dashboard meets it.  It owns the issues: `db` is    *)
(* the list it would return.  What it does with a request is its choice.   *)
(***************************************************************************)

\* The issues the backend holds at the start.
MaxIssues == 1

Departments == {"municipality", "pwd"}

Issue(department, id, status) ==
    [department |-> department, id |-> id, status |-> status]

InitialDb == [i \in 1..MaxIssues |-> Issue("municipality", i, "Open")]

HasIssue(list, id) == \E k \in 1..Len(list) : list[k].id = id

\* The backend's change for a request it accepts.
Applied(dbv, sent) ==
    CASE sent.path = "/issues/{id}/status" ->
            [k \in 1..Len(dbv) |->
                IF dbv[k].id = sent.id
                THEN Issue(dbv[k].department, dbv[k].id, sent.body[2])
                ELSE dbv[k]]
      [] sent.path = "/admin/{id}/reassign" ->
            [k \in 1..Len(dbv) |->
                IF dbv[k].id = sent.id
                THEN Issue(sent.body[2], dbv[k].id, dbv[k].status)
                ELSE dbv[k]]
      [] sent.path = "/admin/{id}" ->
            SelectSeq(dbv, LAMBDA i : i.id # sent.id)
      [] OTHER -> dbv

Served200(dbv, sent) ==
    IF sent.path = "/admin/issues" THEN JsonArray(dbv)
    ELSE JsonObject("", "", <<sent.id>>)

BackendChoices ==
    {"ok", "noContent", "unauthorized", "forbidden", "serverError", "down"}

BackendResult(dbv, outcome) == [db |-> dbv, outcome |-> outcome]

\* The backend's answer to `sent` under its choice, and the issues it holds
\* afterwards.  A request about an issue it does not hold is answered 404.
BackendServe(dbv, sent, choice) ==
    IF sent = NoRequest THEN BackendResult(dbv, NoOutcome)
    ELSE IF choice = "down"
         THEN BackendResult(dbv, Outcome(TRUE, 0, "none", JsonNull))
    ELSE IF choice = "unauthorized"
         THEN BackendResult(dbv, Outcome(FALSE, 401, "json",
                                 DetailBody("Could not validate credentials")))
    ELSE IF choice = "forbidden"
         THEN BackendResult(dbv, Outcome(FALSE, 403, "json",
                                 DetailBody("Not enough permissions")))
    ELSE IF choice = "serverError"
         THEN BackendResult(dbv, Outcome(FALSE, 500, "text", JsonNull))
    ELSE IF sent.id # 0 /\ ~HasIssue(dbv, sent.id)
         THEN BackendResult(dbv, Outcome(FALSE, 404, "json",
                                 DetailBody("Issue not found")))
    ELSE IF choice = "noContent" /\ sent.method # "GET"
         THEN BackendResult(Applied(dbv, sent),
                            Outcome(FALSE, 204, "empty", JsonNull))
    ELSE BackendResult(Applied(dbv, sent),
                       Outcome(FALSE, 200, "json", Served200(dbv, sent)))

\* A page's fetch of an API route: the route sends its request, the backend
\* serves it, the route answers.  With no network the fetch itself throws
\* and no route runs.
\* The route's answer once the backend has served what the route sent.
Answered(req, sent, served) ==
    [db |-> served.db, failed |-> FALSE, outcome |-> served.outcome,
     resp |-> Route(req, served.outcome).resp, sent |-> sent]

\* The one element of a set of one element.
Only(S) == CHOOSE x \in S : TRUE

Forwarded(req, dbv, choice, sent) ==
    Only({ Answered(req, sent, served) :
             served \in {BackendServe(dbv, sent, choice)} })

ViaRoute(req, dbv, choice) ==
    IF choice = "offline"
    THEN [db |-> dbv, failed |-> TRUE, outcome |-> NoOutcome,
          resp |-> NoResponse, sent |-> NoRequest]
    ELSE Only({ Forwarded(req, dbv, choice, sent) :
                  sent \in {Route(req, NoOutcome).sent} })

(***************************************************************************)
(* The admin dashboard.  A handler runs to its end in one step, the        *)
(* requests it awaits included; `updating`, set when a status update       *)
(* starts and cleared in its finally block, is null between handlers.      *)
(***************************************************************************)

Dashboard == "/admin/dashboard"

Login == "/admin/login"

\* What a page's fetch may meet: the backend's choices, or no network.
PageChoices == BackendChoices \cup {"offline"}

\* getAuthHeaders: `Bearer ${token}`
Bearer(token) == IF token = Null THEN "Bearer null" ELSE "Bearer t1"

\* The state fetchIssues leaves, the response it received (NoResponse
\* when it made no request or its fetch threw) and what the backend had
\* answered to the route (NoOutcome when the backend was not asked).
AfterFetch(dbv, fetch, issuesv, outcome, requests, route, token, user) ==
    [db |-> dbv, fetch |-> fetch, issues |-> issuesv, outcome |-> outcome,
     requests |-> requests, route |-> route, token |-> token, user |-> user]

\* setIssues(data)
SetIssues(held, data) == data

\* On a 401 only the token is removed.
IssuesFetchedKeepingUser(r, token, user, route, issuesv, url) ==
    IF r.failed
    THEN AfterFetch(r.db, NoResponse, issuesv, NoOutcome, url, route, token,
                    user)
    ELSE IF r.resp.status = 401
    THEN AfterFetch(r.db, r.resp, issuesv, r.outcome, url, Login, Null, user)
    ELSE AfterFetch(r.db, r.resp, SetIssues(issuesv, r.resp.body), r.outcome,
                    url, route, token, user)

\* fetchIssues, from the answer r to its request on.

IssuesFetched(r, token, user, route, issuesv, url) ==
    IF r.failed
    THEN AfterFetch(r.db, NoResponse, issuesv, NoOutcome, url, route, token,
                    user)
    ELSE IF r.resp.status = 401
    THEN AfterFetch(r.db, r.resp, issuesv, r.outcome, url, Login, Null, Null)
    ELSE AfterFetch(r.db, r.resp, SetIssues(issuesv, r.resp.body), r.outcome,
                    url, route, token, user)

\* fetchIssues
FetchIssues(token, user, route, issuesv, dbv, choice) ==
    IF token = Null
    THEN AfterFetch(dbv, NoResponse, issuesv, NoOutcome, <<>>, Login, token,
                    user)
    ELSE Only({ IssuesFetched(r, token, user, route, issuesv,
                              <<Url(SameOrigin, "/api/admin/issues")>>) :
                  r \in { ViaRoute(Request("adminIssues", "GET",
                                           Bearer(token), <<>>, 0, NoBody),
                                   dbv, choice) } })


NoFetch(dbv) ==
    AfterFetch(dbv, NoResponse, issues, NoOutcome, <<>>, dashRoute, dashToken,
               dashUser)

LastRun(fetch, handler, mutation, outcome) ==
    [fetch |-> fetch, handler |-> handler, mutation |-> mutation,
     outcome |-> outcome]

\* The part of a handler's effect that fetchIssues decides.
Refetched(f) ==
    /\ db' = f.db
    /\ issues' = f.issues
    /\ dashRoute' = f.route
    /\ dashToken' = f.token
    /\ dashUser' = f.user

\* if (res.ok): the handlers re-fetch after a mutation that succeeded.
RefetchAlways(m) == ~m.failed

RefetchAfter(m) == ~m.failed /\ IsOk(m.resp.status)

\* The end of such a handler: m is the answer to its mutation, f what
\* fetchIssues left (NoFetch when it was not called).
MutationEnd(handler, m, f, refetched, url, reassignAfterOk) ==
    /\ Refetched(f)
    /\ loading' = (IF refetched THEN FALSE ELSE loading)
    /\ reassignIssue' = (IF refetched THEN reassignAfterOk ELSE reassignIssue)
    /\ pageRequests' = <<url>> \o f.requests
    /\ dashLast' =
         LastRun(f.fetch, handler, IF m.failed THEN NoResponse ELSE m.resp,
                 f.outcome)
    /\ UNCHANGED apiUrlEnv

Mutated(handler, m, url, reassignAfterOk) ==
    IF RefetchAfter(m)
    THEN \E c2 \in PageChoices :
            \E f \in { FetchIssues(dashToken, dashUser, dashRoute, issues,
                                   m.db, c2) } :
                MutationEnd(handler, m, f, TRUE, url, reassignAfterOk)
    ELSE MutationEnd(handler, m, NoFetch(m.db), FALSE, url, reassignAfterOk)

\* A handler that sends one mutation and re-fetches the list when it
\* succeeded: handleResolve, handleReopen, handleReassign, handleDelete.
Mutation(handler, req, url, reassignAfterOk) ==
    \E c1 \in PageChoices :
        \E m \in {ViaRoute(req, db, c1)} :
            Mutated(handler, m, url, reassignAfterOk)

\* The issues on display: handlers are bound to the rows of the list.
Shown == IF issues.kind = "array" THEN issues.payload ELSE <<>>

NoRun == LastRun(NoResponse, "none", NoResponse, NoOutcome)

\* No handler is running or has just run.
Idle == dashLast = NoRun

OnDashboard == Idle /\ dashRoute = Dashboard

\* handleResolve: offered for an issue that is Open.
DashResolve ==
    /\ OnDashboard
    /\ \E k \in 1..Len(Shown) :
        /\ Shown[k].status = "Open"
        /\ Mutation("handleResolve",
                    Request("issueStatus", "PATCH", Bearer(dashToken), <<>>,
                            Shown[k].id, <<"status", "Resolved">>),
                    Url(SameOrigin, "/api/issues/{id}/status"), reassignIssue)

\* handleReopen: offered for an issue that is not Open.
DashReopen ==
    /\ OnDashboard
    /\ \E k \in 1..Len(Shown) :
        /\ Shown[k].status # "Open"
        /\ Mutation("handleReopen",
                    Request("issueStatus", "PATCH", Bearer(dashToken), <<>>,
                            Shown[k].id, <<"status", "Open">>),
                    Url(SameOrigin, "/api/issues/{id}/status"), reassignIssue)

\* setReassignIssue(reassignIssue === issue.id ? null : issue.id)
DashToggleReassign ==
    /\ OnDashboard
    /\ \E k \in 1..Len(Shown) :
        reassignIssue' = (IF reassignIssue = Shown[k].id THEN 0 ELSE Shown[k].id)
    /\ pageRequests' = <<>>
    /\ dashLast' = LastRun(NoResponse, "setReassignIssue", NoResponse, NoOutcome)
    /\ UNCHANGED <<db, dashRoute, dashToken, dashUser, issues, loading,
                   apiUrlEnv>>

\* handleReassign: the select of the issue being reassigned.
DashReassign ==
    /\ OnDashboard
    /\ \E k \in 1..Len(Shown), dept \in Departments :
        /\ reassignIssue = Shown[k].id
        /\ Mutation("handleReassign",
                    Request("reassign", "PATCH", Bearer(dashToken), <<>>,
                            Shown[k].id, <<"department", dept>>),
                    Url(SameOrigin, "/api/admin/issues/{id}"), 0)

\* handleDelete: nothing happens unless the user confirms.
DashDelete ==
    /\ OnDashboard
    /\ \E k \in 1..Len(Shown), confirmed \in BOOLEAN :
        IF confirmed
        THEN Mutation("handleDelete",
                      Request("deleteIssue", "DELETE", Bearer(dashToken), <<>>,
                              Shown[k].id, NoBody),
                      Url(SameOrigin, "/api/admin/issues/{id}"), reassignIssue)
        ELSE /\ pageRequests' = <<>>
             /\ dashLast' = LastRun(NoResponse, "handleDelete", NoResponse, NoOutcome)
             /\ UNCHANGED <<db, dashRoute, dashToken, dashUser, issues,
                            loading, reassignIssue, apiUrlEnv>>

\* The Refresh button: fetchIssues.
DashRefresh ==
    /\ OnDashboard
    /\ ~loading
    /\ \E c \in PageChoices :
        \E f \in {FetchIssues(dashToken, dashUser, dashRoute, issues, db, c)} :
            /\ Refetched(f)
            /\ pageRequests' = f.requests
            /\ dashLast' = LastRun(f.fetch, "fetchIssues", NoResponse, f.outcome)
    /\ loading' = FALSE
    /\ UNCHANGED <<reassignIssue, apiUrlEnv>>

\* handleLogout
DashLogout ==
    /\ OnDashboard
    /\ dashToken' = Null
    /\ dashUser' = Null
    /\ dashRoute' = Login
    /\ pageRequests' = <<>>
    /\ dashLast' = LastRun(NoResponse, "handleLogout", NoResponse, NoOutcome)
    /\ UNCHANGED <<db, issues, loading, reassignIssue, apiUrlEnv>>

\* handleLogout in another tab of the dashboard: localStorage is shared by
\* the tabs, this tab's router and state are its own.
DashLogoutElsewhere ==
    /\ OnDashboard
    /\ dashToken # Null
    /\ dashToken' = Null
    /\ dashUser' = Null
    /\ pageRequests' = <<>>
    /\ dashLast' = LastRun(NoResponse, "storage", NoResponse, NoOutcome)
    /\ UNCHANGED <<db, dashRoute, issues, loading, reassignIssue, apiUrlEnv>>

\* handleExportCSV: window.open on the backend's export.
DashExportCSV ==
    /\ OnDashboard
    /\ pageRequests' = <<Url(API_URL, "/analytics/export/issues")>>
    /\ dashLast' = LastRun(NoResponse, "handleExportCSV", NoResponse, NoOutcome)
    /\ UNCHANGED <<db, dashRoute, dashToken, dashUser, issues, loading,
                   reassignIssue, apiUrlEnv>>

\* The dashboard is opened: the component mounts with its initial state and
\* its effect runs: fetchIssues, then fetchPriorityIssues, which asks the
\* backend itself (its list is only displayed and is not part of the model).
DashOpen ==
    /\ Idle
    /\ reassignIssue' = 0
    /\ IF dashToken = Null
       THEN /\ dashRoute' = Login
            /\ issues' = JsonArray(<<>>)
            /\ loading' = TRUE
            /\ pageRequests' = <<>>
            /\ dashLast' = LastRun(NoResponse, "useEffect", NoResponse, NoOutcome)
            /\ UNCHANGED <<db, dashToken, dashUser>>
       ELSE \E c \in PageChoices :
            \E f \in { FetchIssues(dashToken, dashUser, Dashboard,
                                   JsonArray(<<>>), db, c) } :
                /\ Refetched(f)
                /\ loading' = FALSE
                /\ pageRequests' =
                     f.requests
                     \o <<Url(API_URL, "/analytics/priority-issues?limit=5")>>
                /\ dashLast' = LastRun(f.fetch, "useEffect", NoResponse, f.outcome)
    /\ UNCHANGED apiUrlEnv

\* The login page (not part of this source) stores the token and the user.
DashLogin ==
    /\ Idle
    /\ dashRoute = Login
    /\ dashToken' = "t1"
    /\ dashUser' = "admin"
    /\ pageRequests' = <<>>
    /\ dashLast' = LastRun(NoResponse, "login", NoResponse, NoOutcome)
    /\ UNCHANGED <<db, dashRoute, issues, loading, reassignIssue, apiUrlEnv>>

InitDashboard ==
    /\ db = InitialDb
    /\ dashRoute = Login
    /\ dashToken = Null
    /\ dashUser = Null
    /\ issues = JsonArray(<<>>)
    /\ loading = TRUE
    /\ reassignIssue = 0
    /\ dashLast = NoRun

InitEnv ==
    /\ apiUrlEnv \in {Null, "https://api.advolens.example"}
    /\ pageRequests = <<>>

\* The handler is over: the page is idle again.
DashIdle ==
    /\ ~Idle
    /\ dashLast' = NoRun
    /\ pageRequests' = <<>>
    /\ UNCHANGED <<db, dashRoute, dashToken, dashUser, issues, loading,
                   reassignIssue, apiUrlEnv>>

NextDashboard ==
    \/ DashIdle
    \/ DashOpen
    \/ DashLogin
    \/ DashRefresh
    \/ DashResolve
    \/ DashReopen
    \/ DashToggleReassign
    \/ DashReassign
    \/ DashDelete
    \/ DashLogout
    \/ DashLogoutElsewhere
    \/ DashExportCSV


(***************************************************************************)
(* The report page.  Two versions of it are in the source: the one at      *)
(* client/app/report/page.tsx and a later one with manual entry of the     *)
(* coordinates; `reportPage` says which one is deployed.  handleSubmit     *)
(* runs to its end in one step, createIssue included, so `loading` is      *)
(* false between handlers and is not kept.                                 *)
(***************************************************************************)

\* The page at client/app/report/page.tsx, and the later one.
FirstPage == "report/page.tsx"

LaterPage == "report page with manual entry"

Home == "/"

Report == "/report"

Notifications == "/notifications"

Location(lat, lon) == [lat |-> lat, lon |-> lon]

\* location === null
NoLocation == Location(NaN, NaN)

\* What the browser has of navigator.geolocation: none, one that a page
\* served outside https and localhost may not use, or one that works.
Geolocations == {"none", "insecure", "available"}

\* pos.coords of getCurrentPosition
Positions == { Location(Dec(100159, 4), Dec(763419, 4)),
               Location(FromInt(-90), FromInt(180)) }

\* GeolocationPositionError.code
PERMISSION_DENIED == 1

POSITION_UNAVAILABLE == 2

TIMEOUT == 3

ErrorCodes == {PERMISSION_DENIED, POSITION_UNAVAILABLE, TIMEOUT}

NotSupported == "Geolocation is not supported by your browser."

\* switch (error.code)
GeoErrorMessage(code) ==
    CASE code = PERMISSION_DENIED ->
            "Location permission denied. Please enable it in your browser settings or use manual entry."
      [] code = POSITION_UNAVAILABLE ->
            "Location information unavailable. Please try manual entry."
      [] code = TIMEOUT ->
            "Location request timed out. Please try again or use manual entry."
      [] OTHER -> "Unable to get location."

\* What the value of an <input type="number"> can be: empty (also when what
\* was typed is no number), or a floating-point numeral.
LatInputs ==
    { <<>>,
      <<"9", "0">>,
      <<"9", "e", "1">>,
      <<"-", "9", "0", ".", "5">>,
      <<"1", "0", "0">> }

LonInputs ==
    { <<>>,
      <<"-", "1", "8", "0">>,
      <<"1", "8", "0", ".", "0", "1">>,
      <<"7", "6", ".", "3", "4", "1", "9">> }

\* The state a location handler leaves, and the alert it showed.
Located(alert, loc, err) ==
    [alert |-> alert, location |-> loc, locationError |-> err]

\* The range check with the longitude's bounds used for the latitude too.
OutOfRangeLatitudeAsLongitude(lat, lon) ==
    \/ Less(lat, FromInt(-180))
    \/ Less(FromInt(180), lat)
    \/ Less(lon, FromInt(-180))
    \/ Less(FromInt(180), lon)

\* lat < -90 || lat > 90 || lon < -180 || lon > 180
OutOfRange(lat, lon) ==
    \/ Less(lat, FromInt(-90))
    \/ Less(FromInt(90), lat)
    \/ Less(lon, FromInt(-180))
    \/ Less(FromInt(180), lon)

InvalidAlert == "Please enter valid coordinates"

OutOfRangeAlert ==
    "Invalid coordinates. Latitude must be between -90 and 90, Longitude between -180 and 180."

\* handleManualLocationSubmit, from the two parsed numbers on.
SetManualLocation(lat, lon, loc, err) ==
    IF IsNaN(lat) \/ IsNaN(lon)
    THEN Located(InvalidAlert, loc, err)
    ELSE IF OutOfRange(lat, lon)
    THEN Located(OutOfRangeAlert, loc, err)
    ELSE Located(Null, Location(lat, lon), Null)

\* handleManualLocationSubmit
HandleManualLocationSubmit(latText, lonText, loc, err) ==
    SetManualLocation(ParseFloat(latText), ParseFloat(lonText), loc, err)

\* A FormData: the sequence of its (name, value) entries.
HasEntry(form, name) == \E k \in 1..Len(form) : form[k][1] = name

\* The submit guard without its test of the photo.
MissingLocationOnly(filev, loc) == loc = NoLocation

\* !file || !location
MissingPhotoOrLocation(filev, loc) == filev = Null \/ loc = NoLocation

\* formData.append of image, lat, lon and, if (description), description
FormData(filev, loc, desc) ==
    << <<"image", filev>>,
       <<"lat", NumberToString(loc.lat)>>,
       <<"lon", NumberToString(loc.lon)>> >>
    \o (IF desc # "" THEN << <<"description", desc>> >> ELSE <<>>)

\* The issue the backend answers a report with; a backend that issues no
\* tracking token leaves the member out.
Created(id, token) == JsonObject("", "", <<id, token>>)

\* res.tracking_token
TrackingTokenOf(data) ==
    IF data.kind = "object" /\ Len(data.payload) = 2
    THEN data.payload[2]
    ELSE Null

\* What the backend may do with a report.
ReportChoices ==
    {"created", "createdAgain", "createdNoToken", "nullBody", "serverError",
     "down", "offline"}

ReportBackend(choice) ==
    CASE choice = "created" ->
            Outcome(FALSE, 200, "json", Created(1, "tok1"))
      [] choice = "createdAgain" ->
            Outcome(FALSE, 200, "json", Created(2, "tok2"))
      [] choice = "createdNoToken" ->
            Outcome(FALSE, 200, "json", Created(1, Null))
      [] choice = "nullBody" -> Outcome(FALSE, 200, "json", JsonNull)
      [] choice = "serverError" -> Outcome(FALSE, 500, "text", JsonNull)
      [] OTHER -> Outcome(TRUE, 0, "none", JsonNull)

\* createIssue: api.post('/api/issues', formData).  With no base URL the
\* request goes to the API route, which forwards it; with one it goes to
\* that origin.  axios throws when the request fails and when the status is
\* not 2xx; otherwise the value is response.data.
CreateIssue(form, choice) ==
    LET out  == ReportBackend(choice)
        resp == IF AxiosBaseURL = SameOrigin
                THEN IssuesPOST(Request("issues", "POST", Null, <<>>, 0, form),
                                out).resp
                ELSE Response(out.status, out.data)
    IN  [data |-> resp.body,
         failed |-> \/ choice = "offline"
                    \/ AxiosBaseURL # SameOrigin /\ out.threw
                    \/ ~IsOk(resp.status),
         requests |-> <<Url(AxiosBaseURL, "/api/issues")>>]

\* localStorage.setItem('tracking_token', ...) under if (res.tracking_token)
SaveTrackingToken(held, data) ==
    IF TrackingTokenOf(data) \notin {Null, ""}
    THEN TrackingTokenOf(data)
    ELSE held

MissingAlert == "Please add photo and location!"

FailedAlert == "Failed to report. Please try again."

\* The success message of the first page, and of the later one.
ReportedAlert == "Reported!"

SubmittedAlert == "Report Submitted! Your tracking token has been saved."

\* The state handleSubmit leaves, the alert it showed, the form it sent
\* (<<>> when none) and the value createIssue gave it.
Submitted(alert, data, desc, filev, form, loc, requests, route, token) ==
    [alert |-> alert, data |-> data, description |-> desc, file |-> filev,
     form |-> form, location |-> loc, requests |-> requests, route |-> route,
     token |-> token]

\* handleSubmit of the later page.  Reading a member of a null response
\* throws, and is caught like a failed request.
HandleSubmit(filev, loc, desc, token, route, choice) ==
    IF MissingPhotoOrLocation(filev, loc)
    THEN Submitted(MissingAlert, JsonNull, desc, filev, <<>>, loc, <<>>,
                   route, token)
    ELSE LET form == FormData(filev, loc, desc)
             res  == CreateIssue(form, choice)
         IN  IF res.failed \/ res.data.kind = "null"
             THEN Submitted(FailedAlert, JsonNull, desc, filev, form, loc,
                            res.requests, route, token)
             ELSE Submitted(SubmittedAlert, res.data, "", Null, form,
                            NoLocation, res.requests, Notifications,
                            SaveTrackingToken(token, res.data))

\* handleSubmit of the first page: it neither stores the token nor leaves
\* the page.
HandleSubmitFirstPage(filev, loc, desc, token, route, choice) ==
    IF MissingPhotoOrLocation(filev, loc)
    THEN Submitted(MissingAlert, JsonNull, desc, filev, <<>>, loc, <<>>,
                   route, token)
    ELSE LET form == FormData(filev, loc, desc)
             res  == CreateIssue(form, choice)
         IN  IF res.failed \/ res.data.kind = "null"
             THEN Submitted(FailedAlert, JsonNull, desc, filev, form, loc,
                            res.requests, route, token)
             ELSE Submitted(ReportedAlert, res.data, "", Null, form,
                            NoLocation, res.requests, route, token)

\* The handler that has just run, the alert it showed, the form it sent and
\* the value createIssue gave it.
ReportRun(alert, data, form, handler) ==
    [alert |-> alert, data |-> data, form |-> form, handler |-> handler]

NoReportRun == ReportRun(Null, JsonNull, <<>>, "none")

\* No handler of the report page is running or has just run.
ReportIsIdle == reportLast = NoReportRun

OnReport == ReportIsIdle /\ reportRoute = Report

Files == {Null, "photo.jpg"}

Descriptions == {"", "Pothole"}

\* useEffect of the later page: the error shown when there is no geolocation.
MountError(page, geo) ==
    IF page = LaterPage /\ geo = "none" THEN NotSupported ELSE Null

Pages == {FirstPage, LaterPage}

\* The page is opened: the component mounts with its initial state.  The
\* first time decides which page is deployed and what the browser has.
ReportOpen ==
    /\ ReportIsIdle
    /\ \E page \in (IF reportPage = Null THEN Pages ELSE {reportPage}),
          geo \in (IF geolocation = Null THEN Geolocations ELSE {geolocation}) :
        /\ reportPage' = page
        /\ geolocation' = geo
        /\ locationError' = MountError(page, geo)
    /\ reportRoute' = Report
    /\ file' = Null
    /\ location' = NoLocation
    /\ description' = ""
    /\ manualLocation' = FALSE
    /\ manualLat' = <<>>
    /\ manualLon' = <<>>
    /\ reportLast' = ReportRun(Null, JsonNull, <<>>, "useEffect")
    /\ pageRequests' = <<>>
    /\ UNCHANGED <<trackingToken, apiUrlEnv>>

\* onChange of the file input: setFile(e.target.files?.[0] || null)
ReportSetFile ==
    /\ OnReport
    /\ \E f \in Files : file' = f
    /\ UNCHANGED <<reportPage, geolocation, reportRoute, location,
                   description, locationError, manualLocation, manualLat,
                   manualLon, trackingToken, reportLast, envVars>>

\* onChange of the textarea: setDescription(e.target.value)
ReportSetDescription ==
    /\ OnReport
    /\ \E d \in Descriptions : description' = d
    /\ UNCHANGED <<reportPage, geolocation, reportRoute, file, location,
                   locationError, manualLocation, manualLat, manualLon,
                   trackingToken, reportLast, envVars>>

\* getLocation of the later page, the callback of getCurrentPosition
\* included.
GetLocation ==
    /\ reportPage = LaterPage
    /\ \/ /\ geolocation = "none"
          /\ locationError' = NotSupported
          /\ manualLocation' = TRUE
          /\ UNCHANGED location
       \/ /\ geolocation = "insecure"
          /\ locationError' =
               "Location access requires HTTPS or localhost. Please use manual entry."
          /\ manualLocation' = TRUE
          /\ UNCHANGED location
       \/ /\ geolocation = "available"
          /\ \E pos \in Positions : location' = pos
          /\ locationError' = Null
          /\ manualLocation' = FALSE
       \/ /\ geolocation = "available"
          /\ \E code \in ErrorCodes : locationError' = GeoErrorMessage(code)
          /\ manualLocation' = TRUE
          /\ UNCHANGED location
    /\ reportLast' = ReportRun(Null, JsonNull, <<>>, "getLocation")

\* getLocation of the first page: a position, or an alert.
GetLocationFirstPage ==
    /\ reportPage = FirstPage
    /\ \/ /\ geolocation = "none"
          /\ reportLast' =
               ReportRun(NotSupported, JsonNull, <<>>, "getLocation")
          /\ UNCHANGED location
       \/ /\ geolocation = "available"
          /\ \E pos \in Positions : location' = pos
          /\ reportLast' = ReportRun(Null, JsonNull, <<>>, "getLocation")
       \/ /\ geolocation # "none"
          /\ reportLast' =
               ReportRun("Unable to get location. Please enable location services.",
                         JsonNull, <<>>, "getLocation")
          /\ UNCHANGED location
    /\ UNCHANGED <<locationError, manualLocation>>

\* The Get Current Location button.
ReportGetLocation ==
    /\ OnReport
    /\ GetLocation \/ GetLocationFirstPage
    /\ pageRequests' = <<>>
    /\ UNCHANGED <<reportPage, geolocation, reportRoute, file, description,
                   manualLat, manualLon, trackingToken, apiUrlEnv>>

\* The manual entry is rendered under manualLocation && !location.
ManualEntryShown ==
    reportPage = LaterPage /\ manualLocation /\ location = NoLocation

\* "Can't get location? Enter manually": setManualLocation(true)
ReportEnterManually ==
    /\ OnReport
    /\ reportPage = LaterPage
    /\ ~manualLocation
    /\ location = NoLocation
    /\ manualLocation' = TRUE
    /\ UNCHANGED <<reportPage, geolocation, reportRoute, file, location,
                   description, locationError, manualLat, manualLon,
                   trackingToken, reportLast, envVars>>

\* onChange of the latitude input: setManualLat(e.target.value)
ReportSetManualLat ==
    /\ OnReport
    /\ ManualEntryShown
    /\ \E text \in LatInputs : manualLat' = text
    /\ UNCHANGED <<reportPage, geolocation, reportRoute, file, location,
                   description, locationError, manualLocation, manualLon,
                   trackingToken, reportLast, envVars>>

\* onChange of the longitude input: setManualLon(e.target.value)
ReportSetManualLon ==
    /\ OnReport
    /\ ManualEntryShown
    /\ \E text \in LonInputs : manualLon' = text
    /\ UNCHANGED <<reportPage, geolocation, reportRoute, file, location,
                   description, locationError, manualLocation, manualLat,
                   trackingToken, reportLast, envVars>>

\* The Set Location button: handleManualLocationSubmit
ReportManualLocationSubmit ==
    /\ OnReport
    /\ ManualEntryShown
    /\ LET r == HandleManualLocationSubmit(manualLat, manualLon, location,
                                           locationError)
       IN  /\ location' = r.location
           /\ locationError' = r.locationError
           /\ reportLast' =
                ReportRun(r.alert, JsonNull, <<>>, "handleManualLocationSubmit")
    /\ pageRequests' = <<>>
    /\ UNCHANGED <<reportPage, geolocation, reportRoute, file, description,
                   manualLocation, manualLat, manualLon, trackingToken,
                   apiUrlEnv>>

\* onSubmit of the form: handleSubmit
ReportSubmit ==
    /\ OnReport
    /\ \E choice \in (IF MissingPhotoOrLocation(file, location)
                      THEN {"none"} ELSE ReportChoices) :
        LET r == IF reportPage = LaterPage
                 THEN HandleSubmit(file, location, description, trackingToken,
                                   reportRoute, choice)
                 ELSE HandleSubmitFirstPage(file, location, description,
                                            trackingToken, reportRoute, choice)
        IN  /\ file' = r.file
            /\ location' = r.location
            /\ description' = r.description
            /\ trackingToken' = r.token
            /\ reportRoute' = r.route
            /\ pageRequests' = r.requests
            /\ reportLast' = ReportRun(r.alert, r.data, r.form, "handleSubmit")
    /\ UNCHANGED <<reportPage, geolocation, locationError, manualLocation,
                   manualLat, manualLon, apiUrlEnv>>

\* The handler is over: the page is idle again.
ReportIdle ==
    /\ ~ReportIsIdle
    /\ reportLast' = NoReportRun
    /\ pageRequests' = <<>>
    /\ UNCHANGED <<reportPage, geolocation, reportRoute, file, location,
                   description, locationError, manualLocation, manualLat,
                   manualLon, trackingToken, apiUrlEnv>>

\* The page not yet opened.
InitReport ==
    /\ reportPage = Null
    /\ geolocation = Null
    /\ reportRoute = Home
    /\ file = Null
    /\ location = NoLocation
    /\ description = ""
    /\ locationError = Null
    /\ manualLocation = FALSE
    /\ manualLat = <<>>
    /\ manualLon = <<>>
    /\ trackingToken = Null
    /\ reportLast = NoReportRun

NextReport ==
    \/ ReportIdle
    \/ ReportOpen
    \/ ReportSetFile
    \/ ReportSetDescription
    \/ ReportGetLocation
    \/ ReportEnterManually
    \/ ReportSetManualLat
    \/ ReportSetManualLon
    \/ ReportManualLocationSubmit
    \/ ReportSubmit


(***************************************************************************)
(* The analytics page.  fetchIssues and fetchHotspots are started together *)
(* (on mount and by Refresh) and end on their own, in any order; Refresh   *)
(* is disabled while fetchIssues runs, not while fetchHotspots does, so    *)
(* several fetches of the hotspots can be under way.                       *)
(***************************************************************************)

\* The fetches of the hotspots that can be under way at once.
MaxFetches == 2

Hotspot(center, cluster_id, issue_count) ==
    [center |-> center, cluster_id |-> cluster_id, issue_count |-> issue_count]

\* The lists of hotspots the backend may compute.
HotspotLists ==
    { <<>>,
      << Hotspot(Location(Dec(100159, 4), Dec(763419, 4)), 0, 3) >>,
      << Hotspot(Location(Dec(85, 1), Dec(769, 1)), 1, 5),
         Hotspot(Location(Dec(100159, 4), Dec(763419, 4)), 0, 3) >> }

\* The body { hotspots: list, ... }
HotspotsBody(list) == JsonObject("", "", <<list>>)

\* What the backend may do with a request that is not answered with a list
\* of hotspots: an object without the member, null, an error, a body that
\* is no JSON, no answer.
OtherOutcomes ==
    { Outcome(FALSE, 200, "json", JsonObject("", "", <<>>)),
      Outcome(FALSE, 200, "json", JsonNull),
      Outcome(FALSE, 200, "text", JsonNull),
      Outcome(FALSE, 404, "json", DetailBody("Not Found")),
      Outcome(FALSE, 500, "json", HotspotsBody(<<>>)),
      Outcome(TRUE, 0, "none", JsonNull) }

\* fetchHotspots with the list emptied when the fetch fails.
FetchHotspotsClearing(held, out) ==
    IF out.threw \/ ~IsOk(out.status) \/ out.ctype # "json"
       \/ out.data.kind = "null"
    THEN <<>>
    ELSE IF out.data.payload = <<>> THEN <<>> ELSE out.data.payload[1]

\* fetchHotspots: the hotspots it leaves.  res.json() throws on a body
\* that is no JSON and data.hotspots on null; both are caught.
\* setHotspots(data.hotspots || [])
FetchHotspots(held, out) ==
    IF out.threw THEN held
    ELSE IF ~IsOk(out.status) THEN held
    ELSE IF out.ctype # "json" \/ out.data.kind = "null" THEN held
    ELSE IF out.data.payload = <<>> THEN <<>>
    ELSE out.data.payload[1]

\* getIssues: api.get('/api/issues'), the value of which is response.data.
GetIssues(out, offline) ==
    LET resp == IF AxiosBaseURL = SameOrigin
                THEN IssuesGET(Request("issues", "GET", Null, <<>>, 0, NoBody),
                               out).resp
                ELSE Response(out.status, out.data)
    IN  [data |-> resp.body,
         failed |-> \/ offline
                    \/ AxiosBaseURL # SameOrigin /\ out.threw
                    \/ ~IsOk(resp.status)]

\* What the backend may do with the request for the issues.
IssuesOutcomes ==
    { Outcome(FALSE, 200, "json", JsonArray(InitialDb)),
      Outcome(FALSE, 200, "json", JsonArray(<<>>)),
      Outcome(FALSE, 500, "text", JsonNull),
      Outcome(TRUE, 0, "none", JsonNull) }

\* The handler that has just ended and what its fetch met.
AnalyticsRun(handler, outcome) == [handler |-> handler, outcome |-> outcome]

NoAnalyticsRun == AnalyticsRun("none", NoOutcome)

AnalyticsIsIdle == analyticsLast = NoAnalyticsRun

\* The two requests that the effect and Refresh start.
AnalyticsRequests ==
    << Url(AxiosBaseURL, "/api/issues"),
       Url(API_URL, "/analytics/hotspots?status=null") >>

\* The page is opened: the component mounts with its initial state and its
\* effect starts the two fetches.  What was under way for an earlier
\* mount no longer reaches the state.
AnalyticsOpen ==
    /\ AnalyticsIsIdle
    /\ hotspots' = <<>>
    /\ analyticsIssues' = JsonArray(<<>>)
    /\ analyticsLoading' = TRUE
    /\ hotspotFetches' = 1
    /\ hotspotsServed' = {}
    /\ analyticsLast' = AnalyticsRun("useEffect", NoOutcome)
    /\ pageRequests' = AnalyticsRequests
    /\ UNCHANGED apiUrlEnv

\* The Refresh button, disabled while loading.
AnalyticsRefresh ==
    /\ AnalyticsIsIdle
    /\ ~analyticsLoading
    /\ hotspotFetches < MaxFetches
    /\ analyticsLoading' = TRUE
    /\ hotspotFetches' = hotspotFetches + 1
    /\ analyticsLast' = AnalyticsRun("onClick", NoOutcome)
    /\ pageRequests' = AnalyticsRequests
    /\ UNCHANGED <<hotspots, analyticsIssues, hotspotsServed, apiUrlEnv>>

\* fetchIssues ends.
AnalyticsIssuesFetched ==
    /\ AnalyticsIsIdle
    /\ analyticsLoading
    /\ \E out \in IssuesOutcomes, offline \in BOOLEAN :
        LET r == GetIssues(out, offline)
        IN  /\ analyticsIssues' = (IF r.failed THEN analyticsIssues ELSE r.data)
            /\ analyticsLast' = AnalyticsRun("fetchIssues", out)
    /\ analyticsLoading' = FALSE
    /\ pageRequests' = <<>>
    /\ UNCHANGED <<hotspots, hotspotFetches, hotspotsServed, apiUrlEnv>>

\* One fetchHotspots ends: the backend answered with a list of hotspots,
\* or otherwise.
AnalyticsHotspotsFetched ==
    /\ AnalyticsIsIdle
    /\ hotspotFetches > 0
    /\ \/ \E list \in HotspotLists :
            LET out == Outcome(FALSE, 200, "json", HotspotsBody(list))
            IN  /\ hotspots' = FetchHotspots(hotspots, out)
                /\ hotspotsServed' = hotspotsServed \cup {list}
                /\ analyticsLast' = AnalyticsRun("fetchHotspots", out)
       \/ \E out \in OtherOutcomes :
            /\ hotspots' = FetchHotspots(hotspots, out)
            /\ analyticsLast' = AnalyticsRun("fetchHotspots", out)
            /\ UNCHANGED hotspotsServed
    /\ hotspotFetches' = hotspotFetches - 1
    /\ pageRequests' = <<>>
    /\ UNCHANGED <<analyticsIssues, analyticsLoading, apiUrlEnv>>

\* The handler is over: the page is idle again.
AnalyticsIdle ==
    /\ ~AnalyticsIsIdle
    /\ analyticsLast' = NoAnalyticsRun
    /\ pageRequests' = <<>>
    /\ UNCHANGED <<hotspots, hotspotFetches, hotspotsServed, analyticsIssues,
                   analyticsLoading, apiUrlEnv>>

\* The page not yet opened.
InitAnalytics ==
    /\ hotspots = <<>>
    /\ hotspotFetches = 0
    /\ hotspotsServed = {}
    /\ analyticsIssues = JsonArray(<<>>)
    /\ analyticsLoading = FALSE
    /\ analyticsLast = NoAnalyticsRun

NextAnalytics ==
    \/ AnalyticsIdle
    \/ AnalyticsOpen
    \/ AnalyticsRefresh
    \/ AnalyticsIssuesFetched
    \/ AnalyticsHotspotsFetched


(***************************************************************************)
(* Image URLs (client/lib/api.ts).  The pages give getImageUrl the         *)
(* image_url of an issue and use its value as the source of an <img>.      *)
(***************************************************************************)

VARIABLES
    \* ---- image URLs (src/client/lib/api.ts)
    backendUrlEnv,  \* NEXT_PUBLIC_BACKEND_URL of the build, NullSeq when not set
    image,          \* the image_url last given to getImageUrl
    imageSrc,       \* getImageUrl(image)
    imageSrcAgain   \* getImageUrl(imageSrc)

imageVars == <<backendUrlEnv, image, imageSrc, imageSrcAgain>>

Http == <<"h", "t", "t", "p", ":", "/", "/">>

Https == <<"h", "t", "t", "p", "s", ":", "/", "/">>

\* String.prototype.startsWith
StartsWith(s, prefix) ==
    /\ Len(s) >= Len(prefix)
    /\ SubSeq(s, 1, Len(prefix)) = prefix

\* 'http://localhost:8000'
DefaultBackendUrl ==
    Http \o <<"l", "o", "c", "a", "l", "h", "o", "s", "t", ":",
              "8", "0", "0", "0">>

\* process.env.NEXT_PUBLIC_BACKEND_URL || 'http://localhost:8000'
BackendUrl ==
    IF backendUrlEnv = NullSeq \/ backendUrlEnv = <<>>
    THEN DefaultBackendUrl
    ELSE backendUrlEnv

\* Only http:// counts as a full URL.
IsFullUrlHttpOnly(imagePath) == StartsWith(imagePath, Http)

\* imagePath.startsWith('http://') || imagePath.startsWith('https://')

IsFullUrl(imagePath) ==
    StartsWith(imagePath, Http) \/ StartsWith(imagePath, Https)

\* getImageUrl
GetImageUrl(imagePath) ==
    IF IsFullUrl(imagePath) THEN imagePath
    ELSE BackendUrl \o <<"/">> \o imagePath

\* Values of NEXT_PUBLIC_BACKEND_URL: not set, empty, absolute URLs (one
\* with a trailing slash), and a path on the page's own origin.
BackendUrlEnvs ==
    { NullSeq,
      <<>>,
      Http \o <<"b">>,
      Https \o <<"b">>,
      Https \o <<"b", "/">>,
      <<"/", "b">> }

\* Values of image_url: Cloudinary URLs, legacy paths of local uploads, and
\* texts that only nearly begin with a scheme.
ImagePaths ==
    { Http \o <<"c", "/", "a">>,
      Https \o <<"c", "/", "a">>,
      Http,
      <<"u", "/", "a">>,
      <<"/", "u", "/", "a">>,
      <<>>,
      <<"h", "t", "t", "p">>,
      <<"h", "t", "t", "p", "s", ":", "/">>,
      <<"H", "T", "T", "P", ":", "/", "/", "c">>,
      <<"f", "t", "p", ":", "/", "/", "c">> }

\* The client is built with a value of NEXT_PUBLIC_BACKEND_URL; nothing is
\* rendered yet.
ImageBuild ==
    /\ backendUrlEnv' \in BackendUrlEnvs
    /\ image' = NullSeq
    /\ imageSrc' = NullSeq
    /\ imageSrcAgain' = NullSeq

\* A page renders an issue: src={getImageUrl(issue.image_url)}
ImageRender ==
    \E imagePath \in ImagePaths :
        /\ image' = imagePath
        /\ imageSrc' = GetImageUrl(imagePath)
        /\ imageSrcAgain' = NullSeq
        /\ UNCHANGED backendUrlEnv

\* The value is given to getImageUrl once more.
ImageRenderAgain ==
    /\ imageSrc # NullSeq
    /\ imageSrcAgain = NullSeq
    /\ imageSrcAgain' = GetImageUrl(imageSrc)
    /\ UNCHANGED <<backendUrlEnv, image, imageSrc>>

InitImages ==
    /\ backendUrlEnv = NullSeq
    /\ image = NullSeq
    /\ imageSrc = NullSeq
    /\ imageSrcAgain = NullSeq

NextImages ==
    \/ ImageBuild
    \/ ImageRender
    \/ ImageRenderAgain


(***************************************************************************)
(* The build scripts (scripts/build-local.sh and the build-and-push        *)
(* script).  A script runs its commands in order; each command ends with   *)
(* an exit status that is the environment's choice.  Only the echo lines   *)
(* that say what happened are kept in the log.                             *)
(***************************************************************************)

VARIABLES
    \* ---- one run of a build script
    script,       \* which script runs, Null when none has been started
    scriptPc,     \* the command the script is at
    scriptLog,    \* the commands that ended, with their exit statuses, and
                  \* the banners printed, in order
    scriptExit    \* the exit status of the script, NotExited while it runs

scriptVars == <<script, scriptPc, scriptLog, scriptExit>>

BuildLocal == "build-local.sh"

BuildAndPush == "build-and-push"

Scripts == {BuildLocal, BuildAndPush}

\* Exit statuses of the commands: success, failure, docker's own error,
\* and the shell's status for a command it does not find.
ExitStatuses == {0, 1, 125, 127}

\* Exit statuses of cd and of grep -q: done or found, and not.
TestStatuses == {0, 1}

NotExited == 0 - 1

Ended(command, status) == <<command, status>>

\* Without set -e no command ends the script.
ErrExitOff(status) == FALSE

\* set -e: a command that fails ends the script.

ErrExit(status) == status # 0

\* A command outside any test ended with `status`.
Ran(command, status, next) ==
    /\ scriptLog' = Append(scriptLog, Ended(command, status))
    /\ IF ErrExit(status)
       THEN /\ scriptPc' = "exited"
            /\ scriptExit' = status
       ELSE /\ scriptPc' = next
            /\ UNCHANGED scriptExit
    /\ UNCHANGED script

\* The command tested by an if ended with `status`: set -e does not apply.
Tested(command, status, next) ==
    /\ scriptLog' = Append(scriptLog, Ended(command, status))
    /\ scriptPc' = next
    /\ UNCHANGED <<script, scriptExit>>

\* A script is started.
ScriptStart ==
    /\ scriptPc \in {"none", "exited"}
    /\ script' \in Scripts
    /\ scriptPc' = "SCRIPT_DIR"
    /\ scriptLog' = <<>>
    /\ scriptExit' = NotExited

\* SCRIPT_DIR="$(cd "$(dirname "${BASH_SOURCE[0]}")" && pwd)"
ScriptDir ==
    /\ scriptPc = "SCRIPT_DIR"
    /\ \E status \in TestStatuses : Ran("SCRIPT_DIR", status, "cd")

\* cd "$SCRIPT_DIR/../server"
ScriptCd ==
    /\ scriptPc = "cd"
    /\ \E status \in TestStatuses : Ran("cd", status, "docker info")

\* if ! docker info > /dev/null 2>&1; then echo ...; exit 1; fi
ScriptDockerInfo ==
    /\ scriptPc = "docker info"
    /\ \E status \in ExitStatuses :
        IF status # 0
        THEN /\ scriptLog' = scriptLog \o <<Ended("docker info", status),
                                           Ended("echo not running", 0)>>
             /\ scriptPc' = "exited"
             /\ scriptExit' = 1
             /\ UNCHANGED script
        ELSE Tested("docker info", status,
                    IF script = BuildAndPush THEN "login check"
                    ELSE "docker build")

\* if ! docker info 2>/dev/null | grep -q "Username"
ScriptLoginCheck ==
    /\ scriptPc = "login check"
    /\ \E status \in TestStatuses :
        Tested("docker info | grep", status,
               IF status # 0 THEN "docker login" ELSE "buildx inspect")

\* docker login
ScriptDockerLogin ==
    /\ scriptPc = "docker login"
    /\ \E status \in ExitStatuses : Ran("docker login", status, "buildx inspect")

\* if ! docker buildx inspect advolens-builder > /dev/null 2>&1
ScriptBuilderInspect ==
    /\ scriptPc = "buildx inspect"
    /\ \E status \in TestStatuses :
        Tested("docker buildx inspect", status,
               IF status # 0 THEN "buildx create" ELSE "buildx use")

\* docker buildx create --name advolens-builder --use
ScriptBuilderCreate ==
    /\ scriptPc = "buildx create"
    /\ \E status \in ExitStatuses :
        Ran("docker buildx create", status, "buildx bootstrap")

\* docker buildx inspect --bootstrap
ScriptBuilderBootstrap ==
    /\ scriptPc = "buildx bootstrap"
    /\ \E status \in ExitStatuses :
        Ran("docker buildx inspect --bootstrap", status, "buildx build")

\* docker buildx use advolens-builder
ScriptBuilderUse ==
    /\ scriptPc = "buildx use"
    /\ \E status \in ExitStatuses :
        Ran("docker buildx use", status, "buildx build")

\* docker buildx build --platform "$PLATFORM" -t ... --push .
ScriptBuildAndPush ==
    /\ scriptPc = "buildx build"
    /\ \E status \in ExitStatuses :
        Ran("docker buildx build --push", status, "complete")

\* docker build -t "$DOCKER_IMAGE:$DOCKER_TAG" .
ScriptBuild ==
    /\ scriptPc = "docker build"
    /\ \E status \in ExitStatuses : Ran("docker build", status, "complete")

\* The banner, "Local build complete!" or "Build and push complete!", and
\* the echo lines after it; the script ends with the status of the last.
ScriptComplete ==
    /\ scriptPc = "complete"
    /\ scriptLog' = Append(scriptLog, Ended("echo complete", 0))
    /\ scriptPc' = "exited"
    /\ scriptExit' = 0
    /\ UNCHANGED script

InitScripts ==
    /\ script = Null
    /\ scriptPc = "none"
    /\ scriptLog = <<>>
    /\ scriptExit = NotExited

NextScripts ==
    \/ ScriptStart
    \/ ScriptDir
    \/ ScriptCd
    \/ ScriptDockerInfo
    \/ ScriptLoginCheck
    \/ ScriptDockerLogin
    \/ ScriptBuilderInspect
    \/ ScriptBuilderCreate
    \/ ScriptBuilderBootstrap
    \/ ScriptBuilderUse
    \/ ScriptBuildAndPush
    \/ ScriptBuild
    \/ ScriptComplete


(***************************************************************************)
(* Specifications: one per part of the repository.  The parts share no     *)
(* state but the backend and the browser, so each is checked on its own,   *)
(* the others standing still.                                              *)
(***************************************************************************)

vars == <<proxyVars, envVars, dashVars, reportVars, analyticsVars, imageVars,
          scriptVars>>

Init ==
    /\ InitProxy
    /\ InitEnv
    /\ InitDashboard
    /\ InitReport
    /\ InitAnalytics
    /\ InitImages
    /\ InitScripts

\* The API routes, called with every request and backend outcome.
SpecProxy ==
    Init /\ [][NextProxy
                /\ UNCHANGED <<envVars, dashVars, reportVars,
                               analyticsVars, imageVars, scriptVars>>
            ]_vars

\* The admin dashboard over its API routes and the backend.
SpecDashboard ==
    Init /\ [][NextDashboard
                /\ UNCHANGED <<proxyVars, reportVars, analyticsVars,
                               imageVars, scriptVars>>
            ]_vars

\* The report page over its API route and the backend.
SpecReport ==
    Init /\ [][NextReport
                /\ UNCHANGED <<proxyVars, dashVars, analyticsVars,
                               imageVars, scriptVars>>
            ]_vars

\* The analytics page over the backend.
SpecAnalytics ==
    Init /\ [][NextAnalytics
                /\ UNCHANGED <<proxyVars, dashVars, reportVars,
                               imageVars, scriptVars>>
            ]_vars

\* getImageUrl under every build and image_url.
SpecImages ==
    Init /\ [][NextImages
                /\ UNCHANGED <<proxyVars, envVars, dashVars,
                               reportVars, analyticsVars, scriptVars>>
            ]_vars

\* The build scripts under every exit status of their commands.
SpecScripts ==
    Init /\ [][NextScripts
                /\ UNCHANGED <<proxyVars, envVars, dashVars,
                               reportVars, analyticsVars, imageVars>>
            ]_vars

Next ==
    \/ NextProxy
        /\ UNCHANGED <<envVars, dashVars, reportVars,
                       analyticsVars, imageVars, scriptVars>>
    \/ NextDashboard
        /\ UNCHANGED <<proxyVars, reportVars, analyticsVars,
                       imageVars, scriptVars>>
    \/ NextReport
        /\ UNCHANGED <<proxyVars, dashVars, analyticsVars,
                       imageVars, scriptVars>>
    \/ NextAnalytics
        /\ UNCHANGED <<proxyVars, dashVars, reportVars,
                       imageVars, scriptVars>>
    \/ NextImages
        /\ UNCHANGED <<proxyVars, envVars, dashVars,
                       reportVars, analyticsVars, scriptVars>>
    \/ NextScripts
        /\ UNCHANGED <<proxyVars, envVars, dashVars,
                       reportVars, analyticsVars, imageVars>>

Spec == Init /\ [][Next]_vars

(***************************************************************************)
(* Claims about the API routes                                             *)
(***************************************************************************)

AuthGatedRoutes == {"adminIssues", "adminStats", "authMe", "reassign", "deleteIssue"}

\* C1: a request to an auth-gated route (admin issues, admin stats, auth/me,
\* reassign, delete) that carries no Authorization header is answered with
\* status 401 and detail 'Authorization header required', and nothing is
\* sent to the backend.
C1_NoAuthorizationIs401 ==
    (proxyReq.route \in AuthGatedRoutes /\ proxyReq.auth = Null)
        => /\ proxyResp.status = 401
           /\ proxyResp.body.detail = "Authorization header required"
           /\ proxySent = NoRequest

C1_Witness ==
    /\ proxyReq.route = "deleteIssue"
    /\ proxyReq.auth = Null
    /\ proxyResp.status = 401
    /\ proxySent = NoRequest

\* C2: whenever a request to a proxy route (the auth-gated routes and the
\* issue status update) carries an Authorization header, the request the
\* route sends to the backend carries the same Authorization header value.
C2_AuthorizationForwarded ==
    (/\ proxyReq.route \in AuthGatedRoutes \cup {"issueStatus"}
     /\ proxyReq.auth \notin {Null, ""}
     /\ proxySent # NoRequest)
        => proxySent.auth = proxyReq.auth

\* C6: the notification list and mark-read routes answer a request with no
\* 'token' query parameter, or an empty one, with status 400 and detail
\* 'Tracking token is required', and send nothing to the backend.
C6_NoTokenIs400 ==
    (/\ proxyReq.route \in {"notifications", "notificationRead"}
     /\ proxyReq.query \in QueriesWithoutToken)
        => /\ proxyResp.status = 400
           /\ proxyResp.body.detail = "Tracking token is required"
           /\ proxySent = NoRequest

C6_Witness ==
    /\ proxyReq.route = "notificationRead"
    /\ proxyReq.query = TokenName \o <<"=">>
    /\ proxyResp.status = 400
    /\ proxySent = NoRequest

\* C7: the notification count route never answers with an error status: it
\* answers {total: 0, unread: 0} when the token is missing (without calling
\* the backend), when the backend answers non-2xx and when the backend call
\* or the parsing of its body throws; otherwise it answers the backend's
\* counts unchanged.
C7_CountNeverFails ==
    proxyReq.route = "notificationCount"
        => /\ proxyResp.status = 200
           /\ proxyReq.query \in QueriesWithoutToken
                => proxySent = NoRequest /\ proxyResp.body = ZeroCounts
           /\ proxyReq.query \in QueriesWithToken
                => /\ proxySent # NoRequest
                   /\ proxyResp.body =
                        IF \/ proxyOut.threw
                           \/ proxyOut.ctype # "json"
                           \/ ~IsOk(proxyOut.status)
                        THEN ZeroCounts
                        ELSE proxyOut.data

C7_Witness ==
    /\ proxyReq.route = "notificationCount"
    /\ proxySent # NoRequest
    /\ proxyOut.status = 500
    /\ proxyResp = Response(200, ZeroCounts)

(***************************************************************************)
(* Claims about the admin dashboard                                        *)
(***************************************************************************)

MutationHandlers ==
    {"handleResolve", "handleReopen", "handleReassign", "handleDelete"}

ListUrl == Url(SameOrigin, "/api/admin/issues")

Requested(url) == \E i \in 1..Len(pageRequests) : pageRequests[i] = url

\* C3: the dashboard never changes an issue in its list by itself.  In
\* every step the list changes only by being replaced with the body of the
\* response to a re-fetch of /api/admin/issues (or by the component mounting
\* with its empty list first); a Resolve, Reopen, Reassign or Delete
\* re-fetches only if the response to its mutation request was ok, and
\* leaves the list unchanged if the mutation failed.
C3_ListOnlyByRefetch ==
    [][ /\ issues' # issues
            => \/ /\ dashLast'.fetch # NoResponse
                  /\ issues' = dashLast'.fetch.body
                  /\ Requested(ListUrl)'
               \/ /\ dashLast'.handler = "useEffect"
                  /\ issues' = JsonArray(<<>>)
        /\ dashLast'.handler \in MutationHandlers
            => /\ Requested(ListUrl)'
                    => /\ dashLast'.mutation # NoResponse
                       /\ IsOk(dashLast'.mutation.status)
               /\ (dashLast'.mutation = NoResponse
                   \/ ~IsOk(dashLast'.mutation.status))
                    => /\ issues' = issues
                       /\ dashLast'.fetch = NoResponse
      ]_<<issues, dashLast, pageRequests>>

\* A Resolve that succeeded, after which the re-fetched list shows the
\* issue as Resolved.
C3_Witness ==
    /\ dashLast.handler = "handleResolve"
    /\ IsOk(dashLast.mutation.status)
    /\ dashLast.fetch.status = 200
    /\ issues = dashLast.fetch.body
    /\ issues.kind = "array"
    /\ Len(issues.payload) = 1
    /\ issues.payload[1].status = "Resolved"

(***************************************************************************)
(* Claims about the pages' requests                                        *)
(***************************************************************************)

\* The paths of the API routes the pages call.
ApiRoutes ==
    {"/api/admin/issues", "/api/admin/issues/{id}", "/api/issues",
     "/api/issues/{id}/status"}

\* C8: every request a page issues for backend data targets a same-origin
\* /api/... route; no page sends a request to the backend's base URL.
C8_PagesCallApiRoutes ==
    \A i \in 1..Len(pageRequests) :
        /\ pageRequests[i].origin = SameOrigin
        /\ pageRequests[i].path \in ApiRoutes

(***************************************************************************)
(* Claims about the report page                                            *)
(***************************************************************************)

CreateUrl == Url(AxiosBaseURL, "/api/issues")

\* C4: after every successful submission from the report page, when the
\* success message is shown, localStorage 'tracking_token' holds the
\* tracking token that the response to that submission carried.
C4_TokenSavedOnSubmission ==
    (/\ reportLast.handler = "handleSubmit"
     /\ reportLast.alert \in {ReportedAlert, SubmittedAlert}
     /\ TrackingTokenOf(reportLast.data) # Null)
        => trackingToken = TrackingTokenOf(reportLast.data)

\* C5: handleSubmit calls createIssue only if both file and location are
\* set when it is called; every form it sends has the entries image, lat
\* and lon, and has the entry description exactly when the description is
\* not empty.
C5_ReportNeedsPhotoAndLocation ==
    [][ reportLast'.handler = "handleSubmit"
          => /\ Requested(CreateUrl)' <=> reportLast'.form # <<>>
             /\ Requested(CreateUrl)'
                  => /\ file # Null
                     /\ location # NoLocation
                     /\ HasEntry(reportLast'.form, "image")
                     /\ HasEntry(reportLast'.form, "lat")
                     /\ HasEntry(reportLast'.form, "lon")
                     /\ HasEntry(reportLast'.form, "description")
                          <=> description # ""
      ]_<<reportLast, pageRequests>>

\* A report sent with a description: its form has the four entries, the
\* coordinates as text.
C5_Witness ==
    /\ reportLast.handler = "handleSubmit"
    /\ Len(reportLast.form) = 4
    /\ reportLast.form[2] = <<"lat", <<"1", "0", ".", "0", "1", "5", "9">> >>
    /\ reportLast.form[4] = <<"description", "Pothole">>
    /\ Requested(CreateUrl)

\* x is a number with -bound <= x <= bound.
Within(x, bound) ==
    /\ x.scale >= 0
    /\ x.mantissa >= (0 - bound) * Pow10(x.scale)
    /\ x.mantissa <= bound * Pow10(x.scale)

\* C10: a location set by handleManualLocationSubmit has a latitude between
\* -90 and 90 and a longitude between -180 and 180; when either input is
\* not a number (an empty input) or is out of its range, the handler leaves
\* location and locationError unchanged.
C10_ManualLocationInRange ==
    [][ reportLast'.handler = "handleManualLocationSubmit"
          => LET lat == ParseFloat(manualLat)
                 lon == ParseFloat(manualLon)
                 valid == /\ manualLat # <<>>
                          /\ manualLon # <<>>
                          /\ Within(lat, 90)
                          /\ Within(lon, 180)
             IN  /\ location' # location
                      => /\ Within(location'.lat, 90)
                         /\ Within(location'.lon, 180)
                 /\ valid => location' = Location(lat, lon)
                 /\ ~valid => /\ location' = location
                              /\ locationError' = locationError
      ]_<<reportLast, location, locationError>>

\* A latitude of 100 with a longitude in range: refused, the location still
\* unset and the error of the failed geolocation still shown.
C10_Witness ==
    /\ reportLast.handler = "handleManualLocationSubmit"
    /\ reportLast.alert = OutOfRangeAlert
    /\ manualLat = <<"1", "0", "0">>
    /\ manualLon = <<"-", "1", "8", "0">>
    /\ location = NoLocation
    /\ locationError = GeoErrorMessage(TIMEOUT)

(***************************************************************************)
(* Claims about the analytics page                                         *)
(***************************************************************************)

\* The response is one that carries data: status 2xx and a JSON body that
\* is not null.
Successful(out) ==
    /\ ~out.threw
    /\ out.status \in 200..299
    /\ out.ctype = "json"
    /\ out.data.kind # "null"

\* C9: the hotspots list is the initial empty list or the unmodified
\* 'hotspots' list of a successful response (empty when the response has
\* none).  It changes only when a fetchHotspots ends (or the page mounts
\* anew, empty); a fetch that failed or was answered non-2xx leaves it as it
\* was.
C9_HotspotsFromBackend ==
    [][ /\ hotspots' = <<>> \/ hotspots' \in hotspotsServed'
        /\ hotspots' # hotspots
             => \/ analyticsLast'.handler = "useEffect" /\ hotspots' = <<>>
                \/ /\ analyticsLast'.handler = "fetchHotspots"
                   /\ Successful(analyticsLast'.outcome)
        /\ analyticsLast'.handler = "fetchHotspots"
             => IF Successful(analyticsLast'.outcome)
                THEN hotspots' =
                       IF analyticsLast'.outcome.data.payload = <<>>
                       THEN <<>>
                       ELSE analyticsLast'.outcome.data.payload[1]
                ELSE hotspots' = hotspots
      ]_<<hotspots, hotspotsServed, analyticsLast>>

\* Two hotspots on display, and a fetch answered 500 that left them there.
C9_Witness ==
    /\ Len(hotspots) = 2
    /\ hotspots \in hotspotsServed
    /\ analyticsLast.handler = "fetchHotspots"
    /\ analyticsLast.outcome.status = 500

(***************************************************************************)
(* Claims about image URLs                                                 *)
(***************************************************************************)

\* C11: getImageUrl returns an input that begins with http:// or https://
\* unchanged and returns any other input p as backendUrl + '/' + p; when
\* the backend's base URL is absolute (begins with http:// or https://),
\* applying getImageUrl to its own value gives that value again.
C11_ImageUrlOnceIsTwice ==
    imageSrc # NullSeq
        => /\ IF StartsWith(image, Http) \/ StartsWith(image, Https)
              THEN imageSrc = image
              ELSE imageSrc = BackendUrl \o <<"/">> \o image
           /\ ( /\ imageSrcAgain # NullSeq
                /\ StartsWith(BackendUrl, Http) \/ StartsWith(BackendUrl, Https) )
                => imageSrcAgain = imageSrc

\* A legacy path under a build with an https backend URL, given to
\* getImageUrl and its value given to it again.
C11_Witness ==
    /\ backendUrlEnv = Https \o <<"b">>
    /\ image = <<"u", "/", "a">>
    /\ imageSrc = Https \o <<"b", "/", "u", "/", "a">>
    /\ imageSrcAgain = imageSrc

(***************************************************************************)
(* Claims about the build scripts                                          *)
(***************************************************************************)

BuildCommands == {"docker build", "docker buildx build --push"}

\* The command ended at place i of the log, and how.
EndedAt(i, commands, ok) ==
    /\ scriptLog[i][1] \in commands
    /\ (scriptLog[i][2] = 0) = ok

\* C12: in both build scripts, once 'docker info' has failed no image build
\* is ever started and the script exits with status 1; and the 'complete'
\* banner is printed only after the build command of the script (which, in
\* build-and-push, is also the push) has ended with status 0.
C12_BuildOnlyWithDockerAndBannerOnlyAfterBuild ==
    /\ (\E i \in 1..Len(scriptLog) : EndedAt(i, {"docker info"}, FALSE))
        => /\ scriptPc = "exited"
           /\ scriptExit = 1
           /\ \A j \in 1..Len(scriptLog) : scriptLog[j][1] \notin BuildCommands
    /\ \A j \in 1..Len(scriptLog) :
        scriptLog[j][1] = "echo complete"
            => /\ \E i \in 1..(j - 1) : EndedAt(i, BuildCommands, TRUE)
               /\ \A i \in 1..(j - 1) : ~EndedAt(i, BuildCommands, FALSE)

\* The build-and-push script, having had to log in and to create its
\* builder, built, pushed and printed its banner.
C12_Witness ==
    /\ script = BuildAndPush
    /\ scriptExit = 0
    /\ \E i \in 1..Len(scriptLog) : EndedAt(i, {"docker login"}, TRUE)
    /\ \E i \in 1..Len(scriptLog) : EndedAt(i, {"docker buildx build --push"}, TRUE)
    /\ scriptLog[Len(scriptLog)] = Ended("echo complete", 0)

(***************************************************************************)
(* More claims about the API routes                                        *)
(***************************************************************************)

\* C13: a route other than the notification-count route that forwarded the
\* request answers its caller with a 2xx status if and only if the backend
\* answered the forwarded request with a 2xx status, whatever the body of
\* that answer (JSON, empty, or not JSON).
C13_OkIffBackendOk ==
    ( /\ proxySent # NoRequest
      /\ proxyReq.route # "notificationCount" )
        => ( IsOk(proxyResp.status)
             <=> (~proxyOut.threw /\ IsOk(proxyOut.status)) )

(***************************************************************************)
(* More claims about the admin dashboard                                   *)
(***************************************************************************)

\* The handler that has just run called fetchIssues (useEffect returns
\* before it when no token is stored, but is held to the same).
FetchIssuesCalled ==
    \/ dashLast.handler \in {"fetchIssues", "useEffect"}
    \/ /\ dashLast.handler \in MutationHandlers
       /\ dashLast.mutation # NoResponse
       /\ IsOk(dashLast.mutation.status)

C15_IssuesIsAList ==
    /\ issues.kind = "array"
    /\ (dashLast.fetch # NoResponse /\ ~IsOk(dashLast.fetch.status))
        => issues # dashLast.fetch.body

(***************************************************************************)
(* Claims about the tracking token                                         *)
(***************************************************************************)

NotificationRoutes == {"notifications", "notificationRead", "notificationCount"}

\* C16: for every tracking token t the client holds, a notification call
\* (list, count, mark-read) made with the query the client builds from t
\* results in a request to the backend whose query holds one parameter,
\* 'token', with the value t.
C16_TokenReachesBackend ==
    \A t \in TrackingTokens :
        ( /\ proxyReq.route \in NotificationRoutes
          /\ proxyReq.query = ClientQuery(t) )
            => /\ proxySent # NoRequest
               /\ SearchParams(UrlQuery(proxySent.query)) = << <<TokenName, t>> >>

=============================================================================
